---- MODULE Spec2Model ----
(***************************************************************************)
(* A model of backup_rs (src/src/main.rs): a coordinator that builds an    *)
(* rsync argument list (optionally resolving a versioned snapshot          *)
(* directory), spawns rsync with a piped stdout, drains that pipe while a  *)
(* spawned task waits for the child, and maps the exit status to its own   *)
(* exit code.                                                              *)
(*                                                                         *)
(* A Rust String is a sequence of one-character strings; a Vec<u8> / &[u8] *)
(* is a sequence of byte values 0..255; Option<T> is <<>> (None) or <<v>>  *)
(* (Some(v)).                                                              *)
(***************************************************************************)
EXTENDS Integers, Sequences, FiniteSets, TLC

(***************************************************************************)
(* Bounds of the model.                                                    *)
(***************************************************************************)
\* longest output stream a child program writes, in bytes
MaxOut == 3
\* capacity of the stdout pipe, in bytes
PipeCap == 1
\* most entries read_dir returns for the target root
MaxEntries == 3
\* longest --exclude-override or --pass-args string of the argument-list runs
MaxStr == 3

(***************************************************************************)
(* Literals of the source.                                                 *)
(***************************************************************************)
\* 0x0d, the delimiter of BufReader::split (main.rs:79)
CR == 13
\* 0x0au8, the delimiter of segment.split (main.rs:96)
LF == 10

BaseFlag1 == <<"-", "a", "x", "P">>
BaseFlag2 == <<"-", "-", "s", "t", "a", "t", "s">>
ExcludeFlag == <<"-", "-", "e", "x", "c", "l", "u", "d", "e">>
CachePatternUpper == <<"*", "*", "C", "a", "c", "h", "e", "*", "*">>
CachePatternLower == <<"*", "*", "c", "a", "c", "h", "e", "*", "*">>
LinkDestPrefix == <<"-", "-", "l", "i", "n", "k", "-", "d", "e", "s", "t", "=">>

\* vec!["-axP", "--stats"]
BaseArgs == <<BaseFlag1, BaseFlag2>>
\* ["--exclude", "**Cache**", "--exclude", "**cache**"]
CacheExcludeArgs == <<ExcludeFlag, CachePatternUpper, ExcludeFlag, CachePatternLower>>

(***************************************************************************)
(* Characters and their byte values (the strings of the model are ASCII).  *)
(***************************************************************************)
CharCode ==
    (" " :> 32) @@ ("*" :> 42) @@ ("," :> 44) @@ ("-" :> 45) @@ ("/" :> 47) @@
    ("0" :> 48) @@ ("1" :> 49) @@ ("2" :> 50) @@ ("3" :> 51) @@ ("4" :> 52) @@
    ("5" :> 53) @@ ("6" :> 54) @@ ("7" :> 55) @@ ("8" :> 56) @@ ("9" :> 57) @@
    ("=" :> 61) @@ ("C" :> 67) @@ ("P" :> 80) @@ ("a" :> 97) @@ ("b" :> 98) @@
    ("c" :> 99) @@ ("d" :> 100) @@ ("e" :> 101) @@ ("f" :> 102) @@ ("g" :> 103) @@
    ("h" :> 104) @@ ("i" :> 105) @@ ("j" :> 106) @@ ("k" :> 107) @@ ("l" :> 108) @@
    ("m" :> 109) @@ ("n" :> 110) @@ ("o" :> 111) @@ ("p" :> 112) @@ ("q" :> 113) @@
    ("r" :> 114) @@ ("s" :> 115) @@ ("t" :> 116) @@ ("u" :> 117) @@ ("v" :> 118) @@
    ("w" :> 119) @@ ("x" :> 120) @@ ("y" :> 121) @@ ("z" :> 122)

Digits == <<"0", "1", "2", "3", "4", "5", "6", "7", "8", "9">>

IsDigit(c) == \E i \in 1..10 : Digits[i] = c

DigitVal(c) == CharCode[c] - CharCode["0"]

(***************************************************************************)
(* Sequence helpers.                                                       *)
(***************************************************************************)
Contains(s, d) == \E i \in 1..Len(s) : s[i] = d

FirstIndex(s, d) == CHOOSE i \in 1..Len(s) : s[i] = d /\ \A j \in 1..(i - 1) : s[j] # d

RECURSIVE Flatten(_)
Flatten(ss) == IF ss = <<>> THEN <<>> ELSE Head(ss) \o Flatten(Tail(ss))

\* slice::split / str::split on one delimiter: the pieces between the
\* delimiters, in order; k delimiters give k+1 pieces, the empty input one
\* empty piece
RECURSIVE SplitOn(_, _)
SplitOn(s, d) ==
    IF ~Contains(s, d)
    THEN <<s>>
    ELSE LET i == FirstIndex(s, d)
         IN  <<SubSeq(s, 1, i - 1)>> \o SplitOn(SubSeq(s, i + 1, Len(s)), d)

\* Ord for String: byte-wise lexicographic, a proper prefix sorting first
RECURSIVE StrLess(_, _)
StrLess(a, b) ==
    IF b = <<>> THEN FALSE
    ELSE IF a = <<>> THEN TRUE
    ELSE IF CharCode[Head(a)] # CharCode[Head(b)]
         THEN CharCode[Head(a)] < CharCode[Head(b)]
         ELSE StrLess(Tail(a), Tail(b))

RECURSIVE InsertSorted(_, _)
InsertSorted(x, s) ==
    IF s = <<>> THEN <<x>>
    ELSE IF StrLess(x, Head(s)) THEN <<x>> \o s
    ELSE <<Head(s)>> \o InsertSorted(x, Tail(s))

\* Vec<String>::sort(): ascending
RECURSIVE SortStrings(_)
SortStrings(s) == IF s = <<>> THEN <<>> ELSE InsertSorted(Head(s), SortStrings(Tail(s)))

\* Path::new(base).join(name), rendered as a string
PathJoin(base, name) ==
    IF name # <<>> /\ Head(name) = "/" THEN name
    ELSE IF base = <<>> \/ base[Len(base)] = "/" THEN base \o name
    ELSE base \o <<"/">> \o name

(***************************************************************************)
(* chrono: formatting and parsing "%Y%m%d%H%M".                            *)
(***************************************************************************)
\* n written in exactly w decimal digits, zero-padded
RECURSIVE FmtNum(_, _)
FmtNum(n, w) == IF w = 0 THEN <<>> ELSE FmtNum(n \div 10, w - 1) \o <<Digits[(n % 10) + 1]>>

\* the timestamp with the day written before the month
FormatDateDayFirst(t) ==
    FmtNum(t.year, 4) \o FmtNum(t.day, 2) \o FmtNum(t.month, 2)
        \o FmtNum(t.hour, 2) \o FmtNum(t.minute, 2)

\* now.format("%Y%m%d%H%M")
FormatDate(t) ==
    FmtNum(t.year, 4) \o FmtNum(t.month, 2) \o FmtNum(t.day, 2)
        \o FmtNum(t.hour, 2) \o FmtNum(t.minute, 2)

\* how many of the characters of s from pos on are digits, at most maxw
DigitRun(s, pos, maxw) ==
    CHOOSE k \in 0..maxw :
        /\ \A i \in pos..(pos + k - 1) : i <= Len(s) /\ IsDigit(s[i])
        /\ k = maxw \/ pos + k > Len(s) \/ ~IsDigit(s[pos + k])

RECURSIVE DigitsValue(_)
DigitsValue(ds) ==
    IF ds = <<>> THEN 0 ELSE 10 * DigitsValue(SubSeq(ds, 1, Len(ds) - 1)) + DigitVal(ds[Len(ds)])

\* a numeric item of the format: one to maxw digits, as many as there are
ScanNumber(s, pos, maxw) ==
    LET k == DigitRun(s, pos, maxw)
    IN  [ok |-> k > 0, val |-> DigitsValue(SubSeq(s, pos, pos + k - 1)), next |-> pos + k]

IsLeapYear(y) == (y % 4 = 0 /\ y % 100 # 0) \/ y % 400 = 0

DaysInMonth(y, m) ==
    IF m = 2 THEN (IF IsLeapYear(y) THEN 29 ELSE 28)
    ELSE IF m \in {4, 6, 9, 11} THEN 30 ELSE 31

\* Local.datetime_from_str(name, "%Y%m%d%H%M").is_ok(): the five numeric
\* items in order, nothing left over, and the fields a date and a time
DatetimeFromStrIsOk(s) ==
    LET y  == ScanNumber(s, 1, 4)
        mo == ScanNumber(s, y.next, 2)
        d  == ScanNumber(s, mo.next, 2)
        h  == ScanNumber(s, d.next, 2)
        mi == ScanNumber(s, h.next, 2)
    IN  /\ y.ok /\ mo.ok /\ d.ok /\ h.ok /\ mi.ok
        /\ mi.next = Len(s) + 1
        /\ mo.val \in 1..12
        /\ d.val \in 1..DaysInMonth(y.val, mo.val)
        /\ h.val \in 0..23
        /\ mi.val \in 0..59

(***************************************************************************)
(* std::str::from_utf8: whether a byte sequence is well-formed UTF-8.      *)
(***************************************************************************)
IsCont(b) == b \in 128..191

RECURSIVE Utf8Valid(_)
Utf8Valid(bs) ==
    IF bs = <<>> THEN TRUE
    ELSE LET b == bs[1]
             n == Len(bs)
         IN  IF b < 128 THEN Utf8Valid(Tail(bs))
             ELSE IF b \in 194..223
                  THEN n >= 2 /\ IsCont(bs[2]) /\ Utf8Valid(SubSeq(bs, 3, n))
             ELSE IF b \in 224..239
                  THEN /\ n >= 3 /\ IsCont(bs[2]) /\ IsCont(bs[3])
                       /\ (b = 224 => bs[2] >= 160)
                       /\ (b = 237 => bs[2] <= 159)
                       /\ Utf8Valid(SubSeq(bs, 4, n))
             ELSE IF b \in 240..244
                  THEN /\ n >= 4 /\ IsCont(bs[2]) /\ IsCont(bs[3]) /\ IsCont(bs[4])
                       /\ (b = 240 => bs[2] >= 144)
                       /\ (b = 244 => bs[2] <= 143)
                       /\ Utf8Valid(SubSeq(bs, 5, n))
             ELSE FALSE

(***************************************************************************)
(* Inputs: the command line, the target root's listing, the clock, the     *)
(* child program.                                                          *)
(***************************************************************************)
SourceDirs == {<<"/", "a">>}
TargetDirs == {<<"/", "b">>}
\* --exclude-override: absent, or "a,b"
ExcludeOverrides == {<<>>, << <<"a", ",", "b">> >>}
\* --pass-args: absent, or "-v -z"
PassArgs == {<<>>, << <<"-", "v", " ", "-", "z">> >>}

\* struct Cli after Cli::parse()
CliSet ==
    [source_dir : SourceDirs, target_dir : TargetDirs, versioned : BOOLEAN,
     no_exclude_caches : BOOLEAN, exclude_override : ExcludeOverrides,
     pass_args : PassArgs]

\* every string of at most MaxStr characters over an alphabet
StringsOver(chars) == UNION {[1..n -> chars] : n \in 0..MaxStr}

\* --exclude-override values made of two pattern letters and the comma
RichExcludeOverrides == {<<>>} \cup {<<s>> : s \in StringsOver({"a", "b", ","})}
\* --pass-args values made of two letters and the space
RichPassArgs == {<<>>} \cup {<<s>> : s \in StringsOver({"v", "z", " "})}

\* the command lines of the argument-list runs: every override string with
\* the pass-through values above, and every pass-through string with the
\* override values above
CliSetArgs ==
    [source_dir : SourceDirs, target_dir : TargetDirs, versioned : BOOLEAN,
     no_exclude_caches : BOOLEAN, exclude_override : RichExcludeOverrides,
     pass_args : PassArgs]
    \cup
    [source_dir : SourceDirs, target_dir : TargetDirs, versioned : BOOLEAN,
     no_exclude_caches : BOOLEAN, exclude_override : ExcludeOverrides,
     pass_args : RichPassArgs]

Name2401 == <<"2", "0", "2", "4", "0", "1", "0", "1", "0", "0", "0", "0">>
Name2402 == <<"2", "0", "2", "4", "0", "2", "0", "2", "0", "0", "0", "0">>
Name2403 == <<"2", "0", "2", "4", "0", "3", "0", "3", "0", "0", "0", "0">>
NameBad == <<"n", "o", "t", "a", "d", "a", "t", "e">>

\* the DirEntry values read_dir may yield: two snapshot directories, a
\* directory that is no timestamp, and a plain file with a timestamp name
DirEntries ==
    {[name |-> Name2401, is_dir |-> TRUE], [name |-> Name2402, is_dir |-> TRUE],
     [name |-> NameBad, is_dir |-> TRUE], [name |-> Name2403, is_dir |-> FALSE]}

\* the listings read_dir may return: distinct entries in any order
Listings ==
    UNION {{l \in [1..n -> DirEntries] : \A i, j \in 1..n : l[i] = l[j] => i = j}
           : n \in 0..MaxEntries}

\* the values Local::now() may return
Nows ==
    {[year |-> 2024, month |-> 3, day |-> 5, hour |-> 7, minute |-> 9],
     [year |-> 2025, month |-> 12, day |-> 31, hour |-> 23, minute |-> 59]}

\* the bytes a child writes: a letter, the two delimiters, a byte that is
\* never part of well-formed UTF-8
OutBytes == {102, CR, LF, 255}

\* a child program is the byte stream it writes before it exits
ChildPrograms == UNION {[1..n -> OutBytes] : n \in 0..MaxOut}

\* the numeric codes a child exits with
ExitCodes == {0, 1, 255}

\* std::process::ExitStatus: code() is Some for a normal exit, None when a
\* signal ended the process
Exited(c) == [code |-> <<c>>, signal |-> <<>>]
Signaled(sig) == [code |-> <<>>, signal |-> <<sig>>]
NoStatus == [code |-> <<>>, signal |-> <<>>]

\* anyhow::Error values of the program, with the entry they name
Error(type, name) == [type |-> type, name |-> name]
NoError == Error("none", <<>>)

\* Result<ExitStatus> of run_rsync
Pending == [kind |-> "pending", status |-> NoStatus, err |-> NoError]
Ok(status) == [kind |-> "Ok", status |-> status, err |-> NoError]
Err(e) == [kind |-> "Err", status |-> NoStatus, err |-> e]

(***************************************************************************)
(* State.                                                                  *)
(***************************************************************************)
VARIABLES
    cli,          \* the Cli struct
    pc,           \* where main / run_rsync stands
    readdir,      \* what read_dir returned, while make_versioned_dir runs
    other_args,   \* run_rsync's other_args
    args,         \* run_rsync's args
    child,        \* the rsync process: none, running, exited (a zombie), reaped
    childOut,     \* the stream the child program writes
    childPos,     \* how much of it the child has written
    childStatus,  \* the status the child ended with
    pipe,         \* the bytes in the stdout pipe
    reader,       \* run_rsync's end of the pipe: none, open, dropped
    buf,          \* the bytes of the segment next_segment is collecting
    drain,        \* the drain loop: none, looping, ended, aborted
    records,      \* the Progress / Line records printed
    waitTask,     \* the spawned wait task: none, waiting, done
    waitStatus,   \* the status child.wait() gave the task
    rr,           \* what run_rsync returned
    outcome       \* how the program ended

vars ==
    <<cli, pc, readdir, other_args, args, child, childOut, childPos, childStatus,
      pipe, reader, buf, drain, records, waitTask, waitStatus, rr, outcome>>

childVars == <<child, childOut, childPos, childStatus, pipe>>
drainVars == <<reader, buf, drain, records>>
waitVars == <<waitTask, waitStatus>>
argVars == <<cli, readdir, other_args, args>>

Init ==
    /\ cli \in CliSet
    /\ pc = "run_rsync"
    /\ readdir = <<>>
    /\ other_args = <<>>
    /\ args = <<>>
    /\ child = "none"
    /\ childOut = <<>>
    /\ childPos = 0
    /\ childStatus = NoStatus
    /\ pipe = <<>>
    /\ reader = "none"
    /\ buf = <<>>
    /\ drain = "none"
    /\ records = <<>>
    /\ waitTask = "none"
    /\ waitStatus = NoStatus
    /\ rr = Pending
    /\ outcome = [kind |-> "running", code |-> 0]

(***************************************************************************)
(* make_versioned_dir and dirname_is_valid_date.                           *)
(***************************************************************************)
\* dirname_is_valid_date(dir_entry): Ok(dirname), or the error of the first
\* ensure! that fails
dirname_is_valid_date(e) ==
    IF ~e.is_dir
    THEN [ok |-> FALSE, name |-> e.name, err |-> Error("NotADirectory", e.name)]
    ELSE IF ~DatetimeFromStrIsOk(e.name)
    THEN [ok |-> FALSE, name |-> e.name, err |-> Error("NotDatetimeFormat", e.name)]
    ELSE [ok |-> TRUE, name |-> e.name, err |-> NoError]

\* a collect that drops the entries that fail instead of stopping at them
TryCollectSkipping(entries) ==
    LET r == [i \in 1..Len(entries) |-> dirname_is_valid_date(entries[i])]
        good == SelectSeq(r, LAMBDA x : x.ok)
    IN  [ok |-> TRUE, dirs |-> [i \in 1..Len(good) |-> good[i].name], err |-> NoError]

\* .map(|d| dirname_is_valid_date(d?)).try_collect(): the names in listing
\* order, or the error of the first entry that fails
TryCollect(entries) ==
    LET r == [i \in 1..Len(entries) |-> dirname_is_valid_date(entries[i])]
        bad == {i \in 1..Len(entries) : ~r[i].ok}
    IN  IF bad = {}
        THEN [ok |-> TRUE, dirs |-> [i \in 1..Len(entries) |-> r[i].name], err |-> NoError]
        ELSE LET first == CHOOSE i \in bad : \A j \in bad : i <= j
             IN  [ok |-> FALSE, dirs |-> <<>>, err |-> r[first].err]

\* the last of the names as read, as a pop without the sort would give
LatestSnapshotUnsorted(dirs) == dirs[Len(dirs)]

\* dirs.sort(); dirs.pop().unwrap()
LatestSnapshot(dirs) == LET sorted == SortStrings(dirs) IN sorted[Len(sorted)]

\* if dirs.len() > 1 { other_args.push(format!("--link-dest={}", ...)) }
LinkDestArgs(target_dir, dirs) ==
    IF Len(dirs) > 1
    THEN <<LinkDestPrefix \o PathJoin(target_dir, LatestSnapshot(dirs))>>
    ELSE <<>>

\* a scan that is started whether or not versioning was requested
ReadDirUnguarded ==
    /\ pc = "run_rsync"
    /\ \/ /\ \E l \in Listings : readdir' = l
          /\ pc' = "scan"
          /\ UNCHANGED rr
       \/ /\ rr' = Err(Error("ReadDir", <<>>))
          /\ pc' = "returned"
          /\ UNCHANGED readdir
    /\ UNCHANGED <<cli, other_args, args, childVars, drainVars, waitVars, outcome>>

\* read_dir(&cli.target_dir)?: the listing, or an I/O error
ReadDir ==
    /\ pc = "run_rsync"
    /\ cli.versioned
    /\ \/ /\ \E l \in Listings : readdir' = l
          /\ pc' = "scan"
          /\ UNCHANGED rr
       \/ /\ rr' = Err(Error("ReadDir", <<>>))
          /\ pc' = "returned"
          /\ UNCHANGED readdir
    /\ UNCHANGED <<cli, other_args, args, childVars, drainVars, waitVars, outcome>>

\* a make_versioned_dir that rewrites cli.target_dir before it validates
\* the entries
make_versioned_dir_RewriteFirst ==
    /\ pc = "scan"
    /\ \E now \in Nows :
          /\ cli' = [cli EXCEPT !.target_dir = PathJoin(cli.target_dir, FormatDate(now))]
          /\ LET collected == TryCollect(readdir)
             IN  IF ~collected.ok
                 THEN /\ rr' = Err(collected.err)
                      /\ pc' = "returned"
                      /\ UNCHANGED other_args
                 ELSE /\ other_args' = LinkDestArgs(cli.target_dir, collected.dirs)
                      /\ pc' = "build"
                      /\ UNCHANGED rr
    /\ readdir' = <<>>
    /\ UNCHANGED <<args, childVars, drainVars, waitVars, outcome>>

\* the rest of make_versioned_dir: validate the entries, rewrite
\* cli.target_dir to the new snapshot's path, push the link reference
make_versioned_dir ==
    /\ pc = "scan"
    /\ LET collected == TryCollect(readdir)
       IN  IF ~collected.ok
           THEN /\ rr' = Err(collected.err)
                /\ pc' = "returned"
                /\ UNCHANGED <<cli, other_args>>
           ELSE \E now \in Nows :
                /\ cli' = [cli EXCEPT !.target_dir = PathJoin(cli.target_dir, FormatDate(now))]
                /\ other_args' = LinkDestArgs(cli.target_dir, collected.dirs)
                /\ pc' = "build"
                /\ UNCHANGED rr
    /\ readdir' = <<>>
    /\ UNCHANGED <<args, childVars, drainVars, waitVars, outcome>>

(***************************************************************************)
(* run_rsync: the argument list.                                           *)
(***************************************************************************)
\* one ["--exclude", excl] pair per piece of exclude_override.split(',')
OverrideArgs(exclude_override) ==
    IF exclude_override = <<>> THEN <<>>
    ELSE LET pieces == SplitOn(exclude_override[1], ",")
         IN  Flatten([i \in 1..Len(pieces) |-> <<ExcludeFlag, pieces[i]>>])

\* a split on whitespace runs, which yields no empty piece
PassThroughArgsWhitespace(pass_args) ==
    IF pass_args = <<>> THEN <<>>
    ELSE SelectSeq(SplitOn(pass_args[1], " "), LAMBDA piece : piece # <<>>)

\* pass_args.split(' ')
PassThroughArgs(pass_args) ==
    IF pass_args = <<>> THEN <<>> ELSE SplitOn(pass_args[1], " ")

\* the list with the target pushed before the source
BuildArgListTargetFirst(c, oa) ==
    BaseArgs
        \o (IF c.versioned THEN oa ELSE <<>>)
        \o (IF ~c.no_exclude_caches THEN CacheExcludeArgs ELSE <<>>)
        \o OverrideArgs(c.exclude_override)
        \o PassThroughArgs(c.pass_args)
        \o <<c.target_dir, c.source_dir>>

\* the list with the cache excludes left out when an override is given
BuildArgListExclusive(c, oa) ==
    BaseArgs
        \o (IF c.versioned THEN oa ELSE <<>>)
        \o (IF ~c.no_exclude_caches /\ c.exclude_override = <<>> THEN CacheExcludeArgs ELSE <<>>)
        \o OverrideArgs(c.exclude_override)
        \o PassThroughArgs(c.pass_args)
        \o <<c.source_dir, c.target_dir>>

\* args as run_rsync builds it from the (resolved) cli and other_args
BuildArgList(c, oa) ==
    BaseArgs
        \o (IF c.versioned THEN oa ELSE <<>>)
        \o (IF ~c.no_exclude_caches THEN CacheExcludeArgs ELSE <<>>)
        \o OverrideArgs(c.exclude_override)
        \o PassThroughArgs(c.pass_args)
        \o <<c.source_dir, c.target_dir>>

\* run_rsync from the extend of args by other_args to the push of the
\* target; entered at once when versioning is not requested
BuildArgs ==
    /\ \/ pc = "build"
       \/ pc = "run_rsync" /\ ~cli.versioned
    /\ args' = BuildArgList(cli, other_args)
    /\ pc' = "spawn"
    /\ UNCHANGED <<cli, readdir, other_args, childVars, drainVars, waitVars, rr, outcome>>

(***************************************************************************)
(* run_rsync: the child, the wait task and the drain loop.                 *)
(***************************************************************************)
\* Command::new("rsync")...spawn()?, the take of stdout, the split reader
\* and tokio::spawn of the wait task; or the spawn error
Spawn ==
    /\ pc = "spawn"
    /\ \/ /\ \E prog \in ChildPrograms : childOut' = prog
          /\ child' = "running"
          /\ reader' = "open"
          /\ drain' = "looping"
          /\ waitTask' = "waiting"
          /\ pc' = "drain"
          /\ UNCHANGED rr
       \/ /\ rr' = Err(Error("Spawn", <<>>))
          /\ pc' = "returned"
          /\ UNCHANGED <<child, childOut, reader, drain, waitTask>>
    /\ UNCHANGED <<argVars, childPos, childStatus, pipe, buf, records, waitStatus, outcome>>

\* the child writes its next byte; a write blocks while the pipe is full
ChildWrite ==
    /\ child = "running"
    /\ childPos < Len(childOut)
    /\ reader = "open"
    /\ Len(pipe) < PipeCap
    /\ pipe' = Append(pipe, childOut[childPos + 1])
    /\ childPos' = childPos + 1
    /\ UNCHANGED <<argVars, pc, child, childOut, childStatus, drainVars, waitVars, rr, outcome>>

\* the child writes to a pipe whose read end is gone: SIGPIPE ends it
ChildBrokenPipe ==
    /\ child = "running"
    /\ childPos < Len(childOut)
    /\ reader = "dropped"
    /\ child' = "exited"
    /\ childStatus' = Signaled(13)
    /\ UNCHANGED <<argVars, pc, childOut, childPos, pipe, drainVars, waitVars, rr, outcome>>

\* the child has written its whole stream and exits with a code
ChildExit ==
    /\ child = "running"
    /\ childPos = Len(childOut)
    /\ \E c \in ExitCodes : childStatus' = Exited(c)
    /\ child' = "exited"
    /\ UNCHANGED <<argVars, pc, childOut, childPos, pipe, drainVars, waitVars, rr, outcome>>

\* a signal from outside ends the child, wherever it stands
ChildKilled ==
    /\ child = "running"
    /\ childStatus' = Signaled(9)
    /\ child' = "exited"
    /\ UNCHANGED <<argVars, pc, childOut, childPos, pipe, drainVars, waitVars, rr, outcome>>

\* the wait task: child.wait().await returns once the child has ended
WaitTask ==
    /\ waitTask = "waiting"
    /\ child = "exited"
    /\ pc # "done"
    /\ waitStatus' = childStatus
    /\ waitTask' = "done"
    /\ child' = "reaped"
    /\ UNCHANGED <<argVars, pc, childOut, childPos, childStatus, pipe, drainVars, rr, outcome>>

\* a loop body that prints every piece, whatever its bytes, and goes on
DrainSegmentLossy(segment) ==
    IF segment = <<>>
    THEN [emit |-> <<>>, next |-> "break"]
    ELSE LET parts == SplitOn(segment, LF)
         IN  IF Len(parts) = 1
             THEN [emit |-> <<[kind |-> "Progress", text |-> parts[1]]>>, next |-> "continue"]
             ELSE [emit |-> [i \in 1..Len(parts) |-> [kind |-> "Line", text |-> parts[i]]],
                   next |-> "continue"]

\* the body of the drain loop for one segment: the records it prints and
\* how the loop goes on
\*   segment.is_empty() -> break
\*   one part           -> Progress, or the from_utf8 error
\*   several parts      -> a Line each, up to the first from_utf8 error
DrainSegment(segment) ==
    IF segment = <<>>
    THEN [emit |-> <<>>, next |-> "break"]
    ELSE LET parts == SplitOn(segment, LF)
         IN  IF Len(parts) = 1
             THEN IF Utf8Valid(parts[1])
                  THEN [emit |-> <<[kind |-> "Progress", text |-> parts[1]]>>,
                        next |-> "continue"]
                  ELSE [emit |-> <<>>, next |-> "error"]
             ELSE LET bad == {i \in 1..Len(parts) : ~Utf8Valid(parts[i])}
                      n == IF bad = {} THEN Len(parts)
                           ELSE (CHOOSE i \in bad : \A j \in bad : i <= j) - 1
                  IN  [emit |-> [i \in 1..n |-> [kind |-> "Line", text |-> parts[i]]],
                       next |-> IF bad = {} THEN "continue" ELSE "error"]

\* the effect of one segment on run_rsync
HandleSegment(segment) ==
    LET r == DrainSegment(segment)
    IN  /\ records' = records \o r.emit
        /\ buf' = <<>>
        /\ IF r.next = "continue"
           THEN UNCHANGED <<pc, drain, reader, rr>>
           ELSE IF r.next = "break"
           THEN pc' = "join" /\ drain' = "ended" /\ UNCHANGED <<reader, rr>>
           ELSE /\ pc' = "returned"
                /\ drain' = "aborted"
                /\ reader' = "dropped"
                /\ rr' = Err(Error("Utf8", <<>>))

\* reader.next_segment() takes a byte of the pipe: a CR completes the
\* segment, any other byte joins it
NextSegmentByte ==
    /\ pc = "drain"
    /\ pipe # <<>>
    /\ pipe' = Tail(pipe)
    /\ IF Head(pipe) = CR
       THEN HandleSegment(buf)
       ELSE /\ buf' = Append(buf, Head(pipe))
            /\ UNCHANGED <<pc, drain, reader, records, rr>>
    /\ UNCHANGED <<argVars, child, childOut, childPos, childStatus, waitVars, outcome>>

\* reader.next_segment() at end of file: what is left is the last segment;
\* nothing left is None, which ends the loop
NextSegmentEof ==
    /\ pc = "drain"
    /\ pipe = <<>>
    /\ child \in {"exited", "reaped"}
    /\ IF buf = <<>>
       THEN /\ pc' = "join"
            /\ drain' = "ended"
            /\ UNCHANGED <<reader, buf, records, rr>>
       ELSE HandleSegment(buf)
    /\ UNCHANGED <<argVars, childVars, waitVars, outcome>>

\* exit_status.await resolves with an always-ready join handle
JoinReadyNoWait == TRUE

\* exit_status.await resolves once the wait task has finished
JoinReady == waitTask = "done"

\* Ok(exit_status.await.unwrap()), after the loop
Join ==
    /\ pc = "join"
    /\ JoinReady
    /\ rr' = Ok(waitStatus)
    /\ pc' = "returned"
    /\ reader' = "dropped"
    /\ UNCHANGED <<argVars, childVars, buf, drain, records, waitVars, outcome>>

(***************************************************************************)
(* main.                                                                   *)
(***************************************************************************)
\* a conversion that keeps only "failed or not"
ExitCodeFromFlag(code) == IF code = 0 THEN 0 ELSE 1

\* ExitCode::from(code as u8)
ExitCodeFrom(code) == code % 256

\* match status: the exit code of Ok, the panic of unwrap() on a status
\* with no code, the failure exit of Err
main ==
    /\ pc = "returned"
    /\ outcome' =
          IF rr.kind = "Err" THEN [kind |-> "error", code |-> 1]
          ELSE IF rr.status.code = <<>> THEN [kind |-> "panic", code |-> 101]
          ELSE [kind |-> "exit", code |-> ExitCodeFrom(rr.status.code[1])]
    /\ pc' = "done"
    /\ UNCHANGED <<argVars, childVars, drainVars, waitVars, rr>>

Next ==
    \/ ReadDir
    \/ make_versioned_dir
    \/ BuildArgs
    \/ Spawn
    \/ ChildWrite
    \/ ChildBrokenPipe
    \/ ChildExit
    \/ ChildKilled
    \/ WaitTask
    \/ NextSegmentByte
    \/ NextSegmentEof
    \/ Join
    \/ main

Spec == Init /\ [][Next]_vars

(***************************************************************************)
(* The argument-list runs: run_rsync up to the spawn, over the wider set   *)
(* of command lines.                                                       *)
(***************************************************************************)
InitArgs ==
    /\ cli \in CliSetArgs
    /\ pc = "run_rsync"
    /\ readdir = <<>>
    /\ other_args = <<>>
    /\ args = <<>>
    /\ child = "none"
    /\ childOut = <<>>
    /\ childPos = 0
    /\ childStatus = NoStatus
    /\ pipe = <<>>
    /\ reader = "none"
    /\ buf = <<>>
    /\ drain = "none"
    /\ records = <<>>
    /\ waitTask = "none"
    /\ waitStatus = NoStatus
    /\ rr = Pending
    /\ outcome = [kind |-> "running", code |-> 0]

NextArgs ==
    \/ ReadDir
    \/ make_versioned_dir
    \/ BuildArgs

SpecArgs == InitArgs /\ [][NextArgs]_vars

(***************************************************************************)
(* Properties.                                                             *)
(***************************************************************************)
\* what the child has written so far
Written == SubSeq(childOut, 1, childPos)

\* the texts of the printed records, one after the other
RecordTexts == Flatten([i \in 1..Len(records) |-> records[i].text])

\* a byte stream without its CR and LF bytes
StripDelims(bs) == SelectSeq(bs, LAMBDA b : b # CR /\ b # LF)

\* the child is stopped in a write: it has bytes left and the pipe is full
ChildBlocked ==
    child = "running" /\ childPos < Len(childOut) /\ reader = "open" /\ Len(pipe) >= PipeCap

\* C1: a child that writes any finite stream and exits is never left blocked
\* on a full pipe while run_rsync has stopped reading it (so that run_rsync
\* can return the child's exit status)
C1_NoBlockedChildAfterDrain == ~(ChildBlocked /\ drain = "ended" /\ rr.kind = "pending")

\* C2: when run_rsync returns Ok, every byte the child wrote has been read
\* and printed: the record texts, concatenated, are the output without its
\* CR and LF bytes
C2_AllOutputConverted ==
    rr.kind = "Ok" => /\ pipe = <<>> /\ buf = <<>>
                      /\ RecordTexts = StripDelims(Written)

\* C3: run_rsync returns Ok only after the drain loop has ended and
\* child.wait() has completed, and returns the status child.wait() gave
C3_JoinedBeforeOk ==
    rr.kind = "Ok" => /\ drain = "ended"
                      /\ waitTask = "done"
                      /\ child = "reaped"
                      /\ rr.status = waitStatus
                      /\ rr.status = childStatus

\* C3 witness: run_rsync has returned Ok with the status of a child that
\* wrote output and exited with a nonzero code
C3_Witness ==
    rr.kind = "Ok" /\ rr.status = Exited(1) /\ records # <<>> /\ childPos = Len(childOut)

\* C4: a child ended by a signal does not make main panic
C4_SignalDoesNotPanic ==
    (pc = "done" /\ rr.kind = "Ok" /\ rr.status.code = <<>>) => outcome.kind = "exit"

\* the names of the entries of a listing that are snapshot directories
ValidSnapshotNames(listing) ==
    {listing[i].name : i \in {j \in 1..Len(listing) :
                                 listing[j].is_dir /\ DatetimeFromStrIsOk(listing[j].name)}}

\* the positions of the entries of a listing that are no snapshot directory
InvalidPositions(listing) ==
    {i \in 1..Len(listing) : ~listing[i].is_dir \/ ~DatetimeFromStrIsOk(listing[i].name)}

\* the greatest of a set of names in the byte-wise lexical order
GreatestName(S) == CHOOSE m \in S : \A x \in S : x = m \/ StrLess(x, m)

IsPrefix(a, b) == Len(a) <= Len(b) /\ SubSeq(b, 1, Len(a)) = a

\* C5: when the scan succeeds, a link reference is pushed if and only if
\* the target root holds at least one valid snapshot directory
C5_LinkIffAnySnapshot ==
    [][(pc = "scan" /\ pc' = "build")
          => (other_args' # <<>> <=> ValidSnapshotNames(readdir) # {})]_vars

\* C6: a link reference that make_versioned_dir pushes is --link-dest= and
\* the original target root joined with the lexically greatest scanned
\* name, whatever the order of the listing, and is no path under the
\* rewritten target
C6_LinkIsGreatestSnapshot ==
    [][(pc = "scan" /\ other_args' # <<>>)
          => /\ other_args' =
                   <<LinkDestPrefix
                        \o PathJoin(cli.target_dir, GreatestName(ValidSnapshotNames(readdir)))>>
             /\ ~IsPrefix(LinkDestPrefix \o cli'.target_dir, other_args'[1])]_vars

\* C6 witness: the scan has pushed the link reference to /b/202402020000
C6_Witness ==
    /\ pc = "build"
    /\ other_args = <<LinkDestPrefix \o <<"/", "b", "/">> \o Name2402>>

Count(s, d) == Cardinality({i \in 1..Len(s) : s[i] = d})

\* the strings of ss with sep between them
RECURSIVE JoinWith(_, _)
JoinWith(ss, sep) ==
    IF ss = <<>> THEN <<>>
    ELSE IF Len(ss) = 1 THEN ss[1]
    ELSE ss[1] \o <<sep>> \o JoinWith(Tail(ss), sep)

\* C8: args is, in this order: the base flags; the link reference, if
\* versioned and one was pushed; both cache excludes unless disabled; an
\* --exclude pair per override entry; the pass-through arguments; the
\* source and the resolved target. The plain configuration gives exactly
\* base flags, both cache excludes, source, target.
C8_ArgumentOrder ==
    args # <<>> =>
        LET link == IF cli.versioned THEN other_args ELSE <<>>
            cache == IF cli.no_exclude_caches THEN <<>> ELSE CacheExcludeArgs
            pre == BaseArgs \o link \o cache
            n == IF cli.exclude_override = <<>> THEN 0
                 ELSE Count(cli.exclude_override[1], ",") + 1
            k == IF cli.pass_args = <<>> THEN 0 ELSE Count(cli.pass_args[1], " ") + 1
            o == Len(pre)
            q == o + 2 * n
        IN  /\ Len(link) <= 1
            /\ \A i \in 1..Len(link) : IsPrefix(LinkDestPrefix, link[i])
            /\ Len(args) = q + k + 2
            /\ SubSeq(args, 1, o) = pre
            /\ \A i \in 1..n : /\ args[o + 2 * i - 1] = ExcludeFlag
                               /\ ~Contains(args[o + 2 * i], ",")
            /\ n > 0 => JoinWith([i \in 1..n |-> args[o + 2 * i]], ",") = cli.exclude_override[1]
            /\ \A i \in 1..k : ~Contains(args[q + i], " ")
            /\ k > 0 => JoinWith([i \in 1..k |-> args[q + i]], " ") = cli.pass_args[1]
            /\ args[q + k + 1] = cli.source_dir
            /\ args[q + k + 2] = cli.target_dir
            /\ (~cli.versioned /\ ~cli.no_exclude_caches /\ n = 0 /\ k = 0)
                  => args = <<BaseFlag1, BaseFlag2, ExcludeFlag, CachePatternUpper,
                              ExcludeFlag, CachePatternLower, cli.source_dir, cli.target_dir>>

\* C8 witness: the list of a versioned run with a link reference, cache
\* excludes, two override entries and two pass-through arguments
C8_Witness ==
    /\ pc = "spawn"
    /\ Len(args) = 15
    /\ IsPrefix(LinkDestPrefix, args[3])
    /\ args[4] = ExcludeFlag /\ args[8] = ExcludeFlag /\ args[11] = <<"b">>
    /\ args[13] = <<"-", "z">>
    /\ args[14] = <<"/", "a">>

\* the chunks of a stream: the pieces its CR bytes end, and what follows
\* the last CR when that is not empty
Chunks(out) ==
    LET p == SplitOn(out, CR)
    IN  IF p[Len(p)] = <<>> THEN SubSeq(p, 1, Len(p) - 1) ELSE p

\* the records of one chunk: a Progress of the chunk when it has no LF, a
\* Line per piece between its LFs otherwise
ChunkRecords(c) ==
    IF ~Contains(c, LF)
    THEN <<[kind |-> "Progress", text |-> c]>>
    ELSE LET parts == SplitOn(c, LF)
         IN  [i \in 1..Len(parts) |-> [kind |-> "Line", text |-> parts[i]]]

\* C9: the records printed for a stream are, in stream order, those of
\* each of its chunks (read here for the chunks that are not empty)
C9_RecordsPerChunk ==
    rr.kind = "Ok" =>
        LET chunks == SelectSeq(Chunks(Written), LAMBDA c : c # <<>>)
        IN  records = Flatten([i \in 1..Len(chunks) |-> ChunkRecords(chunks[i])])

\* C10 as stated: whenever the child has exited with a numeric code, the
\* program's exit code is that code
C10_ChildCodeIsExitCode ==
    (pc = "done" /\ child = "reaped" /\ childStatus.code # <<>>)
        => outcome = [kind |-> "exit", code |-> childStatus.code[1]]

\* C10 as amended: whenever run_rsync returns Ok with a status that has a
\* numeric code, the program's exit code is that code, unchanged
C10_OkCodeIsExitCode ==
    (pc = "done" /\ rr.kind = "Ok" /\ rr.status.code # <<>>)
        => /\ outcome = [kind |-> "exit", code |-> rr.status.code[1]]
           /\ rr.status = childStatus

\* C10 witness: the program has ended with the child's code 255
C10_Witness ==
    /\ pc = "done"
    /\ rr = Ok(Exited(255))
    /\ childStatus = Exited(255)
    /\ outcome = [kind |-> "exit", code |-> 255]

\* C11: the drain loop ends only at the end of the stream (the child has
\* ended and nothing is left in the pipe or in the reader), and no Progress
\* record has an empty text
C11_LoopEndsOnlyAtEndOfStream ==
    /\ drain = "ended" => child \in {"exited", "reaped"} /\ pipe = <<>> /\ buf = <<>>
    /\ \A i \in 1..Len(records) : records[i].kind = "Progress" => records[i].text # <<>>

\* the positions of the chunks that hold a piece that is not UTF-8
BadChunks(chunks) ==
    {i \in 1..Len(chunks) :
        \E j \in 1..Len(SplitOn(chunks[i], LF)) : ~Utf8Valid(SplitOn(chunks[i], LF)[j])}

\* the Line records of the pieces of a chunk that come before its first
\* piece that is not UTF-8; none when the chunk is a single piece
LinesBeforeBadPiece(c) ==
    LET parts == SplitOn(c, LF)
        bad == {j \in 1..Len(parts) : ~Utf8Valid(parts[j])}
        first == CHOOSE j \in bad : \A k \in bad : j <= k
    IN  IF Len(parts) = 1 THEN <<>>
        ELSE [j \in 1..(first - 1) |-> [kind |-> "Line", text |-> parts[j]]]

\* the records of a stream up to its first piece that is not UTF-8
RecordsBeforeBadPiece(out) ==
    LET chunks == Chunks(out)
        bad == BadChunks(chunks)
        first == CHOOSE i \in bad : \A k \in bad : i <= k
    IN  Flatten([i \in 1..(first - 1) |-> ChunkRecords(chunks[i])])
            \o LinesBeforeBadPiece(chunks[first])

\* C12: no record is ever printed for a piece that is not UTF-8; when the
\* loop reaches such a piece it aborts with exactly the records of the
\* pieces before it, run_rsync returns the decode error and no status, and
\* the program ends by the error path with the failure code, not by the
\* exit-code path
C12_DecodeErrorAborts ==
    /\ \A i \in 1..Len(records) : Utf8Valid(records[i].text)
    /\ (rr.kind = "Err" /\ rr.err.type = "Utf8") => drain = "aborted"
    /\ drain = "aborted" =>
          /\ rr = Err(Error("Utf8", <<>>))
          /\ reader = "dropped"
          /\ BadChunks(Chunks(Written)) # {}
          /\ records = RecordsBeforeBadPiece(Written)
          /\ pc = "done" => outcome = [kind |-> "error", code |-> 1]

\* C12 witness: the program has ended by the error path after printing the
\* line before the bad piece, the child having exited with code 0
C12_Witness ==
    /\ pc = "done"
    /\ drain = "aborted"
    /\ childOut = <<102, LF, 255>>
    /\ records = <<[kind |-> "Line", text |-> <<102>>]>>
    /\ childStatus = Exited(0)
    /\ outcome.kind = "error"

\* s is the twelve digits YYYYmmddHHMM of the time t
IsStampOf(s, t) ==
    /\ Len(s) = 12
    /\ \A i \in 1..12 : IsDigit(s[i])
    /\ DigitsValue(SubSeq(s, 1, 4)) = t.year
    /\ DigitsValue(SubSeq(s, 5, 6)) = t.month
    /\ DigitsValue(SubSeq(s, 7, 8)) = t.day
    /\ DigitsValue(SubSeq(s, 9, 10)) = t.hour
    /\ DigitsValue(SubSeq(s, 11, 12)) = t.minute

\* path is root, a slash and the timestamp of one of the clock's values
IsRootJoinedNow(path, root) ==
    /\ IsPrefix(root \o <<"/">>, path)
    /\ \E t \in Nows : IsStampOf(SubSeq(path, Len(root) + 2, Len(path)), t)

\* C13: a scan that succeeds rewrites the target to the original target
\* root joined with the current time's timestamp, with or without a link
\* reference (none when the listing holds no snapshot), and that path is
\* the last argument of a versioned run
C13_TargetIsRootJoinedNow ==
    /\ [][(pc = "scan" /\ pc' = "build")
             => /\ IsRootJoinedNow(cli'.target_dir, cli.target_dir)
                /\ ValidSnapshotNames(readdir) = {} => other_args' = <<>>]_vars
    /\ []((cli.versioned /\ args # <<>>)
             => /\ args[Len(args)] = cli.target_dir
                /\ \E root \in TargetDirs : IsRootJoinedNow(args[Len(args)], root))

\* C13 witness: a versioned run without a link reference whose last
\* argument is /b/202403050709
C13_Witness ==
    /\ pc = "spawn"
    /\ cli.versioned
    /\ other_args = <<>>
    /\ args[Len(args)] = <<"/", "b", "/", "2", "0", "2", "4", "0", "3", "0", "5", "0", "7", "0", "9">>

\* the position of the i-th d in s
NthPos(s, d, i) == CHOOSE p \in 1..Len(s) : s[p] = d /\ Count(SubSeq(s, 1, p), d) = i

\* the i-th of the fields of s that its d characters separate
Field(s, d, i) ==
    SubSeq(s, IF i = 1 THEN 1 ELSE NthPos(s, d, i - 1) + 1,
              IF i = Count(s, d) + 1 THEN Len(s) ELSE NthPos(s, d, i) - 1)

\* how many elements of ss are x
Occurrences(ss, x) == Cardinality({i \in 1..Len(ss) : ss[i] = x})

C15_PassThroughSplit ==
    args # <<>> =>
        LET link == IF cli.versioned THEN Len(other_args) ELSE 0
            cache == IF cli.no_exclude_caches THEN 0 ELSE 4
            n == IF cli.exclude_override = <<>> THEN 0
                 ELSE Count(cli.exclude_override[1], ",") + 1
            k1 == IF cli.pass_args = <<>> THEN 0 ELSE Count(cli.pass_args[1], " ") + 1
            q == 2 + link + cache + 2 * n
        IN  /\ Len(args) = q + k1 + 2
            /\ \A i \in 1..k1 : args[q + i] = Field(cli.pass_args[1], " ", i)
            /\ k1 > 0 => JoinWith(SubSeq(args, q + 1, q + k1), " ") = cli.pass_args[1]

\* C15 witness: the string " v " has given the arguments "", "v", ""
C15_Witness ==
    /\ pc = "spawn"
    /\ cli.pass_args = << <<" ", "v", " ">> >>
    /\ SubSeq(args, Len(args) - 4, Len(args) - 2) = << <<>>, <<"v">>, <<>> >>

\* run_rsync has returned an error of make_versioned_dir
ScanFailed == rr.kind = "Err" /\ rr.err.type \in {"ReadDir", "NotADirectory", "NotDatetimeFormat"}

\* C16: a make_versioned_dir that fails leaves cli as it was, other_args
\* and args empty and no child, then and ever after; cli changes only in
\* the step of a scan whose entries are all valid
C16_FailedScanChangesNothing ==
    /\ [][(pc \in {"run_rsync", "scan"} /\ rr'.kind = "Err")
             => cli' = cli /\ other_args' = <<>> /\ args' = <<>> /\ child' = "none"]_vars
    /\ [](ScanFailed
             => /\ cli.target_dir \in TargetDirs
                /\ other_args = <<>> /\ args = <<>>
                /\ child = "none" /\ waitTask = "none" /\ reader = "none")
    /\ [][cli' # cli => pc = "scan" /\ InvalidPositions(readdir) = {} /\ pc' = "build"]_vars

\* C16 witness: the program has ended on the error of a plain file in the
\* target root, the target still /b and no child
C16_Witness ==
    /\ pc = "done"
    /\ rr = Err(Error("NotADirectory", Name2403))
    /\ cli.target_dir = <<"/", "b">>
    /\ other_args = <<>>
    /\ child = "none"

\* C17: a run without versioning never scans the target root, never
\* changes cli, and has no --link-dest among its arguments, whose last is
\* the target as given
C17_UnversionedNeverScans ==
    /\ [](~cli.versioned
             => /\ pc # "scan" /\ readdir = <<>> /\ ~ScanFailed
                /\ cli.target_dir \in TargetDirs
                /\ other_args = <<>>
                /\ \A i \in 1..Len(args) : ~IsPrefix(LinkDestPrefix, args[i])
                /\ args # <<>> => args[Len(args)] \in TargetDirs)
    /\ [][~cli.versioned => cli' = cli]_vars

\* C17 witness: a run without versioning has ended with the child's
\* status and /b as its last argument
C17_Witness ==
    /\ pc = "done"
    /\ ~cli.versioned
    /\ rr.kind = "Ok"
    /\ args[Len(args)] = <<"/", "b">>

====
